---------------------------- MODULE Spec2Model ----------------------------
(***************************************************************************)
(* A model of the text-resolution engine of discord-ext-i18n and of its    *)
(* predecessor py18n, which the repository carries side by side:           *)
(*   - Language.get_text            (src/py18n/language.py)                *)
(*   - I18n.get_text                (src/discord/ext/i18n/i18n.py,         *)
(*                                   src/py18n/i18n.py)                    *)
(*   - I18nExtension.contextual_get_text, flatten_dict                     *)
(*                                  (src/discord/ext/i18n/extension.py,    *)
(*                                   src/py18n/extension.py)               *)
(*                                                                         *)
(* A Python str is a sequence of characters; a character is a one-element  *)
(* TLA+ string.  The characters with a meaning for str.format_map are      *)
(* "{", "}", "." and the decimal digits; the model's alphabet has no "[",  *)
(* "!" or ":" and no word that names an attribute of str or list.          *)
(***************************************************************************)
EXTENDS Naturals, Sequences, FiniteSets, TLC

VARIABLES
    languages,   \* I18n._languages: locale code -> (key -> template)
    fallback,    \* I18n._fallback
    call,        \* the most recent call: its operation, arguments and outcome
    data,        \* the document handed to flatten_dict
    delimiter,   \* the delimiter handed to flatten_dict
    package,     \* the package whose I18nExtension class is in use
    instances,   \* the I18nExtension instances constructed so far
    default_instance  \* I18nExtension.default_instance: an index, 0 for None

\* the state of the I18nExtension class and of its instances
extension == <<package, instances, default_instance>>

vars == <<languages, fallback, call, data, delimiter, extension>>

---------------------------------------------------------------------------
(* Python values and outcomes                                              *)

\* Python's None
None == "None"

\* "".join(parts): the concatenation of a sequence of strings
RECURSIVE Concat(_)
Concat(parts) ==
    IF parts = <<>> THEN <<>> ELSE Head(parts) \o Concat(Tail(parts))

\* a str value and a list-of-str value, as passed in **kwargs
StrVal(s) == [t |-> "str", s |-> s, l |-> <<>>]
ListVal(l) == [t |-> "list", s |-> <<>>, l |-> l]

\* a call that returns v
Return(v) ==
    [kind |-> "return", value |-> v, key |-> <<>>, locale |-> "", fallback |-> ""]

\* a call that raises an exception of class cls carrying no attribute
Raise(cls) ==
    [kind |-> cls, value |-> <<>>, key |-> <<>>, locale |-> "", fallback |-> ""]

\* TranslationKeyEmptyError(key, locale)
TranslationKeyEmptyError(key, locale) ==
    [kind |-> "TranslationKeyEmptyError", value |-> <<>>, key |-> key,
     locale |-> locale, fallback |-> ""]

\* InvalidLocaleError(locale)
InvalidLocaleError(locale) ==
    [kind |-> "InvalidLocaleError", value |-> <<>>, key |-> <<>>,
     locale |-> locale, fallback |-> ""]

\* InvalidTranslationKeyError(key, locale, fallback)
InvalidTranslationKeyError(key, locale, fb) ==
    [kind |-> "InvalidTranslationKeyError", value |-> <<>>, key |-> key,
     locale |-> locale, fallback |-> fb]

\* the exception classes that derive from KeyError (I18nError / Py18nError)
KeyErrors ==
    {"KeyError", "TranslationKeyEmptyError", "InvalidLocaleError",
     "InvalidTranslationKeyError", "InvalidFallbackError",
     "NoDefaultI18nInstanceError"}

IsKeyError(out) == out.kind \in KeyErrors

---------------------------------------------------------------------------
(* str.format_map / str.format, restricted to the model's alphabet         *)

Digits == {"0", "1", "2", "3", "4", "5", "6", "7", "8", "9"}

AllDigits(s) == \A i \in 1..Len(s) : s[i] \in Digits

\* index of the first occurrence of character c in s at or after i, 0 if none
RECURSIVE IndexFrom(_, _, _)
IndexFrom(s, c, i) ==
    IF i > Len(s) THEN 0
    ELSE IF s[i] = c THEN i
    ELSE IndexFrom(s, c, i + 1)

\* format(value, ""): a str is itself, a list is its repr
FormatValue(v) ==
    IF v.t = "str" THEN v.s
    ELSE <<"[">>
         \o Concat([i \in 1..Len(v.l) |->
                (IF i = 1 THEN <<>> ELSE <<",", " ">>) \o <<"'">> \o v.l[i] \o <<"'">>])
         \o <<"]">>

\* One replacement field "{field}".  safe: the mapping is a SafeDict given
\* to format_map; otherwise the mapping is passed as **kwargs to format.
RenderField(field, mapping, safe) ==
    LET dot   == IndexFrom(field, ".", 1)
        first == IF dot = 0 THEN field ELSE SubSeq(field, 1, dot - 1)
        rest  == IF dot = 0 THEN <<>> ELSE SubSeq(field, dot + 1, Len(field))
        dot2  == IndexFrom(rest, ".", 1)
        attr  == IF dot2 = 0 THEN rest ELSE SubSeq(rest, 1, dot2 - 1)
    IN  IF first = <<>> \/ AllDigits(first)
        THEN \* a positional field: format_map has no positional arguments,
             \* format(**mapping) has an empty tuple of them
             IF safe THEN Raise("ValueError") ELSE Raise("IndexError")
        ELSE IF first \notin DOMAIN mapping /\ ~safe
        THEN Raise("KeyError")
        ELSE IF dot = 0
        THEN IF first \in DOMAIN mapping
             THEN Return(FormatValue(mapping[first]))
             ELSE Return(<<"{">> \o first \o <<"}">>)   \* SafeDict.__missing__
        ELSE IF attr = <<>>
        THEN Raise("ValueError")       \* Empty attribute in format string
        ELSE Raise("AttributeError")   \* a str or a list has no such attribute

\* the template from position i on
RECURSIVE FormatFrom(_, _, _, _)
FormatFrom(s, i, mapping, safe) ==
    IF i > Len(s) THEN Return(<<>>)
    ELSE
    LET c == s[i]
        lit(ch, next) ==
            LET r == FormatFrom(s, next, mapping, safe)
            IN  IF r.kind = "return" THEN Return(<<ch>> \o r.value) ELSE r
    IN  IF c \notin {"{", "}"} THEN lit(c, i + 1)
        ELSE IF i = Len(s) THEN Raise("ValueError")      \* Single brace
        ELSE IF s[i + 1] = c THEN lit(c, i + 2)          \* "{{" and "}}"
        ELSE IF c = "}" THEN Raise("ValueError")         \* Single '}'
        ELSE
        LET close == IndexFrom(s, "}", i + 1)
            open  == IndexFrom(s, "{", i + 1)
        IN  IF close = 0 \/ (open # 0 /\ open < close)
            THEN Raise("ValueError")   \* no '}', or '{' in the field name
            ELSE
            LET f == RenderField(SubSeq(s, i + 1, close - 1), mapping, safe)
                r == FormatFrom(s, close + 1, mapping, safe)
            IN  IF f.kind # "return" THEN f
                ELSE IF r.kind # "return" THEN r
                ELSE Return(f.value \o r.value)

\* base_string.format_map(SafeDict(**mapping))
FormatMap(s, mapping) == FormatFrom(s, 1, mapping, TRUE)

\* base_string.format(**mapping)
FormatKw(s, mapping) == FormatFrom(s, 1, mapping, FALSE)

---------------------------------------------------------------------------
(* Language (src/py18n/language.py)                                        *)

\* a variant of _get_translation_from_key that raises for an absent key
\* only, and returns an empty translation
GetTranslationFromKeyAbsentOnly(translations, code, key, raise_on_empty) ==
    IF raise_on_empty /\ key \notin DOMAIN translations
    THEN TranslationKeyEmptyError(key, code)
    ELSE Return(IF key \in DOMAIN translations THEN translations[key] ELSE <<>>)

\* Language._get_translation_from_key: translations.get(key, "")
GetTranslationFromKey(translations, code, key, raise_on_empty) ==
    LET result == IF key \in DOMAIN translations THEN translations[key] ELSE <<>>
    IN  IF raise_on_empty /\ result = <<>>
        THEN TranslationKeyEmptyError(key, code)
        ELSE Return(result)

\* Language.join_list: connector.join(value)
JoinList(value, connector) ==
    Concat([i \in 1..Len(value) |->
                (IF i = 1 THEN <<>> ELSE connector) \o value[i]])

\* the list_formatter argument: None, or lambda v: language.join_list(v, ", ")
ListFormatters == {None, "join_list"}

\* formatted_args of Language.get_text
FormattedArgs(list_formatter, kwargs) ==
    [k \in DOMAIN kwargs |->
        IF list_formatter # None /\ kwargs[k].t = "list"
        THEN StrVal(JoinList(kwargs[k].l, <<",", " ">>))
        ELSE kwargs[k]]

\* a variant of the mapping in which a table entry wins over a keyword
MappingTableFirst(translations, list_formatter, use_translations, kwargs) ==
    LET formatted_args == FormattedArgs(list_formatter, kwargs)
    IN  IF use_translations
        THEN [k \in DOMAIN translations |-> StrVal(translations[k])] @@ formatted_args
        ELSE formatted_args

\* mapping of Language.get_text: {**self.translations, **formatted_args}
Mapping(translations, list_formatter, use_translations, kwargs) ==
    LET formatted_args == FormattedArgs(list_formatter, kwargs)
    IN  IF use_translations
        THEN formatted_args @@ [k \in DOMAIN translations |-> StrVal(translations[k])]
        ELSE formatted_args

\* Language.get_text
LanguageGetText(translations, code, key, list_formatter, use_translations, raise_on_empty, kwargs) ==
    LET base_string == GetTranslationFromKey(translations, code, key, raise_on_empty)
    IN  IF base_string.kind # "return" THEN base_string
        ELSE FormatMap(base_string.value,
                       Mapping(translations, list_formatter, use_translations, kwargs))

---------------------------------------------------------------------------
(* I18n.get_text of discord.ext.i18n (src/discord/ext/i18n/i18n.py)        *)

\* The outcome of a get_text call, the locales whose Language.get_text it
\* called, in order, and whether it logged the "not found" warning.
Outcome(out, consulted, warned) ==
    [out |-> out, consulted |-> consulted, warned |-> warned]

\* Python truthiness of the locale argument: None and "" are falsy
Falsy(locale) == locale \in {None, ""}

\* lines 130-140: the key was found nowhere
NotFound(key, locale, fb, raise_on_empty, consulted) ==
    IF raise_on_empty
    THEN Outcome(InvalidTranslationKeyError(key, locale, fb), consulted, FALSE)
    ELSE Outcome(Return(<<>>), consulted, TRUE)

\* a variant of the retry that never asks the fallback language
FallbackGetTextNever(langs, fb, key, locale, list_formatter, use_translations, should_fallback, raise_on_empty, kwargs) ==
    NotFound(key, locale, fb, raise_on_empty, <<locale>>)

\* a variant of the retry that ignores should_fallback
FallbackGetTextAlways(langs, fb, key, locale, list_formatter, use_translations, should_fallback, raise_on_empty, kwargs) ==
    IF locale # fb
    THEN LET second == LanguageGetText(langs[fb], fb, key, list_formatter,
                                       use_translations, raise_on_empty, kwargs)
         IN  IF ~IsKeyError(second)
             THEN Outcome(second, <<locale, fb>>, FALSE)
             ELSE NotFound(key, locale, fb, raise_on_empty, <<locale, fb>>)
    ELSE NotFound(key, locale, fb, raise_on_empty, <<locale>>)

\* lines 118-128: the retry against the fallback language
FallbackGetText(langs, fb, key, locale, list_formatter, use_translations, should_fallback, raise_on_empty, kwargs) ==
    IF should_fallback /\ locale # fb
    THEN LET second == LanguageGetText(langs[fb], fb, key, list_formatter,
                                       use_translations, raise_on_empty, kwargs)
         IN  IF ~IsKeyError(second)
             THEN Outcome(second, <<locale, fb>>, FALSE)
             ELSE NotFound(key, locale, fb, raise_on_empty, <<locale, fb>>)
    ELSE NotFound(key, locale, fb, raise_on_empty, <<locale>>)

\* a variant of get_text that takes the fallback language for a locale that
\* is not loaded without setting locale to the fallback (line 104 left out)
I18nGetTextKeepLocale(langs, fb, key, locale, list_formatter, use_translations, should_fallback, raise_on_empty, kwargs) ==
    LET given == IF Falsy(locale) THEN fb ELSE locale
    IN  IF given \notin DOMAIN langs /\ ~should_fallback
        THEN Outcome(InvalidLocaleError(given), <<>>, FALSE)
        ELSE
        LET loc   == IF given \in DOMAIN langs THEN given ELSE fb
            first == LanguageGetText(langs[loc], loc, key, list_formatter,
                                     use_translations, raise_on_empty, kwargs)
        IN  IF ~IsKeyError(first)
            THEN Outcome(first, <<loc>>, FALSE)
            ELSE IF should_fallback /\ given # fb
            THEN LET second == LanguageGetText(langs[fb], fb, key, list_formatter,
                                               use_translations, raise_on_empty,
                                               kwargs)
                 IN  IF ~IsKeyError(second)
                     THEN Outcome(second, <<loc, fb>>, FALSE)
                     ELSE NotFound(key, given, fb, raise_on_empty, <<loc, fb>>)
            ELSE NotFound(key, given, fb, raise_on_empty, <<loc>>)

I18nGetText(langs, fb, key, locale, list_formatter, use_translations, should_fallback, raise_on_empty, kwargs) ==
    LET given == IF Falsy(locale) THEN fb ELSE locale     \* locale or self._fallback
    IN  IF given \notin DOMAIN langs /\ ~should_fallback
        THEN Outcome(InvalidLocaleError(given), <<>>, FALSE)
        ELSE
        LET loc   == IF given \in DOMAIN langs THEN given ELSE fb
            first == LanguageGetText(langs[loc], loc, key, list_formatter,
                                     use_translations, raise_on_empty, kwargs)
        IN  IF ~IsKeyError(first)
            THEN Outcome(first, <<loc>>, FALSE)
            ELSE FallbackGetText(langs, fb, key, loc, list_formatter,
                                 use_translations, should_fallback,
                                 raise_on_empty, kwargs)

---------------------------------------------------------------------------
(* I18n.get_text of py18n (src/py18n/i18n.py)                              *)

PyI18nGetText(langs, fb, key, locale, list_formatter, use_translations, should_fallback, raise_on_empty, kwargs) ==
    IF locale \notin DOMAIN langs /\ ~should_fallback
    THEN Outcome(InvalidLocaleError(locale), <<>>, FALSE)
    ELSE
    LET loc    == IF locale \in DOMAIN langs THEN locale ELSE fb
        first  == LanguageGetText(langs[loc], loc, key, list_formatter,
                                  use_translations, raise_on_empty, kwargs)
        \* lines 108-121: the returned string is formatted a second time
        again  == IF first.kind = "return"
                  THEN FormatKw(first.value,
                                Mapping(langs[loc], list_formatter,
                                        use_translations, kwargs))
                  ELSE first
    IN  IF ~IsKeyError(again)
        THEN Outcome(again, <<loc>>, FALSE)
        ELSE FallbackGetText(langs, fb, key, loc, list_formatter,
                             use_translations, should_fallback,
                             raise_on_empty, kwargs)

---------------------------------------------------------------------------
(* flatten_dict                                                            *)

\* A document node: a leaf value, a map (its items in insertion order, with
\* distinct keys) or a sequence (its items in order; k is unused).
Leaf(v) == [t |-> "leaf", v |-> v, items |-> <<>>]
Dict(items) == [t |-> "dict", v |-> "", items |-> items]
List(items) == [t |-> "list", v |-> "", items |-> items]
Item(k, d) == [k |-> k, d |-> d]

IsContainer(d) == d.t \in {"dict", "list"}

\* f"{i}" of a non-negative int: its decimal digits
DigitChars == <<"0", "1", "2", "3", "4", "5", "6", "7", "8", "9">>

RECURSIVE IntToStr(_)
IntToStr(n) ==
    IF n < 10 THEN <<DigitChars[n + 1]>>
    ELSE IntToStr(n \div 10) \o <<DigitChars[(n % 10) + 1]>>

\* dict.update(other) / items[key] = v: the later entry wins
Update(items, other) == other @@ items

\* the k of the i-th pair (lines 52-55): enumerate(list) counts from zero
DxPairKey(current, i) ==
    IF current.t = "list" THEN IntToStr(i - 1) ELSE current.items[i].k

\* a variant of the flat key that joins the prefix also when it is empty
DxKeyAlwaysJoined(key_prefix, delim, k) == key_prefix \o delim \o k

\* the flat key of a pair (line 59): an empty prefix is falsy
DxKey(key_prefix, delim, k) ==
    IF key_prefix # <<>> THEN key_prefix \o delim \o k ELSE k

\* discord.ext.i18n flatten_dict._flatten (extension.py lines 51-64): the
\* loop over pairs, from the i-th pair on, items being what was collected
RECURSIVE DxFlattenFrom(_, _, _, _, _)
DxFlattenFrom(current, i, key_prefix, delim, items) ==
    IF i > Len(current.items) THEN items
    ELSE
    LET k   == DxPairKey(current, i)
        v   == current.items[i].d
        key == DxKey(key_prefix, delim, k)
    IN  DxFlattenFrom(current, i + 1, key_prefix, delim,
            IF IsContainer(v)
            THEN Update(items, DxFlattenFrom(v, 1, key, delim, <<>>))
            ELSE Update(items, key :> v))

\* discord.ext.i18n flatten_dict(data, delimiter)
DxFlattenDict(d, delim) ==
    [kind |-> "return", flat |-> DxFlattenFrom(d, 1, <<>>, delim, <<>>)]

\* py18n flatten_dict._flatten (extension.py lines 56-73).  PyFlattenList is
\* the inner loop over the elements of a list value (lines 64-69).
RECURSIVE PyFlattenFrom(_, _, _, _, _)
RECURSIVE PyFlattenList(_, _, _, _, _)
PyFlattenFrom(current, i, key_prefix, sep, items) ==
    IF i > Len(current.items) THEN items
    ELSE
    LET k       == current.items[i].k
        v       == current.items[i].d
        new_key == IF key_prefix # <<>> THEN key_prefix \o sep \o k ELSE k
    IN  PyFlattenFrom(current, i + 1, key_prefix, sep,
            IF v.t = "dict"
            THEN Update(items, PyFlattenFrom(v, 1, new_key, sep, <<>>))
            ELSE IF v.t = "list"
            THEN PyFlattenList(v, 1, new_key, sep, items)
            ELSE Update(items, new_key :> v))

PyFlattenList(v, i, new_key, sep, items) ==
    IF i > Len(v.items) THEN items
    ELSE
    LET item    == v.items[i].d
        sub_key == new_key \o sep \o IntToStr(i - 1)
    IN  PyFlattenList(v, i + 1, new_key, sep,
            IF item.t = "dict"
            THEN Update(items, PyFlattenFrom(item, 1, sub_key, sep, <<>>))
            ELSE Update(items, sub_key :> item))

\* py18n flatten_dict(d, sep): a list has no .items()
PyFlattenDict(d, sep) ==
    IF d.t # "dict"
    THEN [kind |-> "AttributeError", flat |-> <<>>]
    ELSE [kind |-> "return", flat |-> PyFlattenFrom(d, 1, <<>>, sep, <<>>)]

---------------------------------------------------------------------------
(* Inputs                                                                  *)

\* the largest number of parts of a template
MaxParts == 2

\* the largest number of nodes of a document
MaxNodes == 4

\* the largest length of a list passed as a keyword argument
MaxListLen == 2

\* the pieces templates are made of: a literal, a placeholder naming a
\* simple key, a placeholder naming a delimiter-joined key, a positional
\* placeholder
Parts ==
    {<<"x">>, <<"{", "b", "}">>, <<"{", "a", ".", "b", "}">>, <<"{", "0", "}">>}

RECURSIVE TemplatesUpTo(_)
TemplatesUpTo(n) ==
    IF n = 0 THEN {<<>>}
    ELSE LET shorter == TemplatesUpTo(n - 1)
         IN  shorter \cup {p \o t : p \in Parts, t \in shorter}

Templates == TemplatesUpTo(MaxParts)

\* translation keys: two simple ones and a delimiter-joined one
Keys == {<<"a">>, <<"b">>, <<"a", ".", "b">>}

\* the texts that stand behind a placeholder: at most one part
PlaceholderTexts == TemplatesUpTo(1)

\* the tables of a language in the formatting runs: at most two entries,
\* any template under the first key and a short text under the second
FormatTables ==
    {<<>>} \cup {(k1 :> t1) @@ (k2 :> t2) :
                    k1 \in Keys, t1 \in Templates, k2 \in Keys, t2 \in PlaceholderTexts}

\* the list of length n: ["p", "q", "p", ...]
ListOfLen(n) == [i \in 1..n |-> IF i % 2 = 1 THEN <<"p">> ELSE <<"q">>]

\* **kwargs of a formatting call: none, b="K", b=<a list>
FormatKwargs ==
    {<<>>, <<"b">> :> StrVal(<<"K">>)}
    \cup {<<"b">> :> ListVal(ListOfLen(n)) : n \in 0..MaxListLen}

\* the tables of a language in the resolver runs
ResolverKeys == {<<"a">>, <<"b">>}
ResolverTemplates ==
    {<<>>, <<"{", "b", "}">>, <<"x", "{", "b", "}">>, <<"}">>}
ResolverTables == UNION {[K -> ResolverTemplates] : K \in SUBSET ResolverKeys}

\* **kwargs of a resolver call
ResolverKwargs == {<<>>, <<"b">> :> StrVal(<<"K">>)}

\* the locale codes of the loaded languages, and the locale arguments
LoadedLocales == {"en", "es"}
LocaleArgs == LoadedLocales \cup {"fr", None}

\* leaf values, map keys and delimiters of the documents to flatten
LeafValues == {"u", "v"}
DocKeys == {<<"a">>, <<"a", ".", "a">>, <<>>}
Delimiters == {<<".">>, <<"/">>}

\* the documents with exactly n nodes
RECURSIVE NodesOfSize(_)
RECURSIVE DictItems(_, _)
RECURSIVE ListItems(_)
NodesOfSize(n) ==
    IF n = 0 THEN {}
    ELSE (IF n = 1 THEN {Leaf(v) : v \in LeafValues} ELSE {})
         \cup {Dict(it) : it \in DictItems(n - 1, {})}
         \cup {List(it) : it \in ListItems(n - 1)}

DictItems(n, used) ==
    IF n = 0 THEN {<<>>}
    ELSE UNION {UNION {{<<Item(k, d)>> \o rest :
                            d \in NodesOfSize(m),
                            rest \in DictItems(n - m, used \cup {k})} :
                        m \in 1..n} :
                k \in DocKeys \ used}

ListItems(n) ==
    IF n = 0 THEN {<<>>}
    ELSE UNION {{<<Item(<<>>, d)>> \o rest :
                    d \in NodesOfSize(m), rest \in ListItems(n - m)} :
                m \in 1..n}

\* the documents handed to flatten_dict: maps and sequences
Documents == {d \in UNION {NodesOfSize(n) : n \in 1..MaxNodes} : IsContainer(d)}

---------------------------------------------------------------------------
(* The resolver: an I18n instance and the calls made on it                 *)

\* no call is in progress
Idle == [op |-> "none"]

\* the caller takes the outcome of the call
Done ==
    /\ call # Idle
    /\ call' = Idle
    /\ UNCHANGED <<languages, fallback, data, delimiter, extension>>

NoDocument == Dict(<<>>)

\* no I18nExtension has been constructed
NoExtension ==
    /\ package = "discord.ext.i18n"
    /\ instances = <<>>
    /\ default_instance = 0

Init ==
    /\ languages \in [LoadedLocales -> ResolverTables]
    /\ fallback \in DOMAIN languages        \* I18n.__init__ lines 50-53
    /\ call = Idle
    /\ data = NoDocument
    /\ delimiter = <<".">>
    /\ NoExtension

\* I18n.get_text of discord.ext.i18n
GetText(key, locale, list_formatter, use_translations, should_fallback, raise_on_empty, kwargs) ==
    /\ call = Idle
    /\ call' = [op |-> "I18n.get_text", impl |-> "discord.ext.i18n",
                key |-> key, locale |-> locale,
                list_formatter |-> list_formatter,
                use_translations |-> use_translations,
                should_fallback |-> should_fallback,
                raise_on_empty |-> raise_on_empty, kwargs |-> kwargs,
                result |-> I18nGetText(languages, fallback, key, locale,
                                       list_formatter, use_translations,
                                       should_fallback, raise_on_empty, kwargs)]
    /\ UNCHANGED <<languages, fallback, data, delimiter, extension>>

\* I18n.get_text of py18n
PyGetText(key, locale, list_formatter, use_translations, should_fallback, raise_on_empty, kwargs) ==
    /\ call = Idle
    /\ call' = [op |-> "I18n.get_text", impl |-> "py18n",
                key |-> key, locale |-> locale,
                list_formatter |-> list_formatter,
                use_translations |-> use_translations,
                should_fallback |-> should_fallback,
                raise_on_empty |-> raise_on_empty, kwargs |-> kwargs,
                result |-> PyI18nGetText(languages, fallback, key, locale,
                                         list_formatter, use_translations,
                                         should_fallback, raise_on_empty, kwargs)]
    /\ UNCHANGED <<languages, fallback, data, delimiter, extension>>

Next ==
    \/ Done
    \/ \E key \in ResolverKeys, locale \in LocaleArgs, kwargs \in ResolverKwargs,
       use_translations \in BOOLEAN, should_fallback \in BOOLEAN,
       raise_on_empty \in BOOLEAN :
          \/ GetText(key, locale, None, use_translations, should_fallback,
                   raise_on_empty, kwargs)
          \/ PyGetText(key, locale, None, use_translations, should_fallback,
                       raise_on_empty, kwargs)

Spec == Init /\ [][Next]_vars

---------------------------------------------------------------------------
(* Formatting: one Language and the get_text calls made on it             *)

InitFormat ==
    /\ languages \in [{"en"} -> FormatTables]
    /\ fallback = "en"
    /\ call = Idle
    /\ data = NoDocument
    /\ delimiter = <<".">>
    /\ NoExtension

\* Language.get_text on the language of locale code
LanguageCall(code, key, list_formatter, use_translations, raise_on_empty, kwargs) ==
    /\ call = Idle
    /\ call' = [op |-> "Language.get_text", code |-> code, key |-> key,
                list_formatter |-> list_formatter,
                use_translations |-> use_translations,
                raise_on_empty |-> raise_on_empty, kwargs |-> kwargs,
                out |-> LanguageGetText(languages[code], code, key,
                                        list_formatter, use_translations,
                                        raise_on_empty, kwargs)]
    /\ UNCHANGED <<languages, fallback, data, delimiter, extension>>

NextFormat ==
    \/ Done
    \/ \E code \in DOMAIN languages, key \in Keys,
       list_formatter \in ListFormatters, kwargs \in FormatKwargs,
       use_translations \in BOOLEAN, raise_on_empty \in BOOLEAN :
          LanguageCall(code, key, list_formatter, use_translations,
                       raise_on_empty, kwargs)

SpecFormat == InitFormat /\ [][NextFormat]_vars

---------------------------------------------------------------------------
(* Flattening: a document and the flatten_dict calls made on it           *)

InitFlatten ==
    /\ languages = [l \in {"en"} |-> <<>>]
    /\ fallback = "en"
    /\ call = Idle
    /\ data \in Documents
    /\ delimiter \in Delimiters
    /\ NoExtension

\* flatten_dict of discord.ext.i18n
FlattenDict ==
    /\ call = Idle
    /\ call' = [op |-> "flatten_dict", impl |-> "discord.ext.i18n",
                out |-> DxFlattenDict(data, delimiter)]
    /\ UNCHANGED <<languages, fallback, data, delimiter, extension>>

\* flatten_dict of py18n
PyFlatten ==
    /\ call = Idle
    /\ call' = [op |-> "flatten_dict", impl |-> "py18n",
                out |-> PyFlattenDict(data, delimiter)]
    /\ UNCHANGED <<languages, fallback, data, delimiter, extension>>

NextFlatten == Done \/ FlattenDict \/ PyFlatten

SpecFlatten == InitFlatten /\ [][NextFlatten]_vars

---------------------------------------------------------------------------
(* Vocabulary of the properties                                            *)

\* the table has no non-empty string for the key
HasNoText(translations, key) ==
    key \notin DOMAIN translations \/ translations[key] = <<>>

IsGetText == call.op = "I18n.get_text"
IsDxGetText == IsGetText /\ call.impl = "discord.ext.i18n"
IsPyGetText == IsGetText /\ call.impl = "py18n"

\* the locale a get_text call of the given package selects when none is
\* given: discord.ext.i18n defaults a falsy locale to the fallback
GivenLocale ==
    IF call.impl = "discord.ext.i18n" /\ Falsy(call.locale)
    THEN fallback ELSE call.locale

\* Language.get_text of the language of locale code, with the formatting
\* arguments of the call in progress
LanguageResult(code, raise_on_empty) ==
    LanguageGetText(languages[code], code, call.key, call.list_formatter,
                    call.use_translations, raise_on_empty, call.kwargs)

\* the call in progress, made again with another locale and raise_on_empty
SameCall(locale, raise_on_empty) ==
    IF call.impl = "discord.ext.i18n"
    THEN I18nGetText(languages, fallback, call.key, locale, call.list_formatter,
                     call.use_translations, call.should_fallback,
                     raise_on_empty, call.kwargs)
    ELSE PyI18nGetText(languages, fallback, call.key, locale,
                       call.list_formatter, call.use_translations,
                       call.should_fallback, raise_on_empty, call.kwargs)

---------------------------------------------------------------------------
(* C1 - C5, C8: the resolver (specification Spec)                          *)

\* the case of C1: a loaded locale other than the fallback, whose table has
\* no text for the key, while the fallback's table has
C1_Case ==
    /\ IsGetText
    /\ call.should_fallback /\ call.raise_on_empty
    /\ call.locale \in DOMAIN languages /\ call.locale # fallback
    /\ HasNoText(languages[call.locale], call.key)
    /\ ~HasNoText(languages[fallback], call.key)

\* C1 (as claimed): with should_fallback and raise_on_empty, a key without
\* text in the selected loaded locale and with text in the fallback locale
\* makes get_text return exactly the string the fallback language's
\* get_text returns for the same key and keyword arguments, and raise
\* nothing.
C1_AsClaimed ==
    C1_Case =>
        /\ call.result.out.kind = "return"
        /\ call.result.out = LanguageResult(fallback, TRUE)

\* C1 (amended): in that case get_text gives exactly what the fallback
\* language's get_text gives for the same key and keyword arguments: the
\* string it returns, with nothing raised, or the error str.format_map
\* raises on the fallback's template (ValueError for the template "}");
\* it never raises one of the lookup errors, and the languages asked are
\* the selected one and then the fallback.
C1_FallbackOnMissingKey ==
    C1_Case =>
        /\ call.result.out = LanguageResult(fallback, TRUE)
        /\ ~IsKeyError(call.result.out)
        /\ call.result.consulted = <<call.locale, fallback>>

C1_Witness ==
    /\ C1_Case
    /\ call.impl = "discord.ext.i18n"
    /\ call.result.out.kind = "return"
    /\ call.result.out.value = <<"x", "K">>

\* C2: with should_fallback, a locale that is not loaded, or no locale at
\* all, gives what the same call gives with locale = fallback (the same
\* string or the same error), and the fallback language is asked once.
C2_UnknownLocaleIsFallback ==
    (IsGetText /\ call.should_fallback /\ call.locale \notin DOMAIN languages)
        => /\ call.result.out = SameCall(fallback, call.raise_on_empty).out
           /\ call.result.consulted = <<fallback>>

C2_Witness ==
    /\ IsDxGetText /\ call.should_fallback
    /\ call.locale = "fr"
    /\ call.raise_on_empty
    /\ call.result.out = InvalidTranslationKeyError(call.key, fallback, fallback)
    /\ call.result.consulted = <<fallback>>

\* C3 (as claimed): falling back on a missing key does not depend on
\* raise_on_empty: with should_fallback and raise_on_empty = False a key
\* absent from the selected loaded locale and present with text in the
\* fallback resolves to what the call returns with raise_on_empty = True.
C3_FallbackWithoutRaiseOnEmpty ==
    ( /\ IsDxGetText
      /\ call.should_fallback /\ ~call.raise_on_empty
      /\ call.locale \in DOMAIN languages /\ call.locale # fallback
      /\ call.key \notin DOMAIN languages[call.locale]
      /\ ~HasNoText(languages[fallback], call.key)
      /\ LanguageResult(fallback, TRUE).kind = "return" )
        => /\ call.result.out = LanguageResult(fallback, FALSE)
           /\ call.result.out = SameCall(call.locale, TRUE).out

\* C4: with should_fallback = False the only table consulted is the one of
\* the selected locale: a locale that is not loaded raises
\* InvalidLocaleError before any lookup, and a key without text in a loaded
\* non-fallback locale raises InvalidTranslationKeyError under
\* raise_on_empty, whatever the fallback's table holds.
C4_NoFallback ==
    (IsGetText /\ ~call.should_fallback) =>
        /\ GivenLocale \notin DOMAIN languages
              => /\ call.result.out = InvalidLocaleError(GivenLocale)
                 /\ call.result.consulted = <<>>
        /\ GivenLocale \in DOMAIN languages
              => call.result.consulted = <<GivenLocale>>
        /\ ( /\ GivenLocale \in DOMAIN languages
             /\ GivenLocale # fallback
             /\ call.raise_on_empty
             /\ HasNoText(languages[GivenLocale], call.key) )
              => call.result.out =
                     InvalidTranslationKeyError(call.key, GivenLocale, fallback)

C4_Witness ==
    /\ IsDxGetText /\ ~call.should_fallback /\ call.raise_on_empty
    /\ call.locale \in DOMAIN languages /\ call.locale # fallback
    /\ HasNoText(languages[call.locale], call.key)
    /\ ~HasNoText(languages[fallback], call.key)
    /\ call.result.out.kind = "InvalidTranslationKeyError"
    /\ call.result.consulted = <<call.locale>>

\* the locale whose table a call searches first, when there is one
SearchedLocale ==
    IF GivenLocale \in DOMAIN languages THEN GivenLocale ELSE fallback

\* the case of C5: a table is searched, and neither it nor the fallback's
\* table, when the call consults it, has text for the key
C5_Case ==
    /\ IsGetText
    /\ GivenLocale \in DOMAIN languages \/ call.should_fallback
    /\ HasNoText(languages[SearchedLocale], call.key)
    /\ (\E i \in 1..Len(call.result.consulted) :
            call.result.consulted[i] = fallback)
          => HasNoText(languages[fallback], call.key)

\* C5: a key that has no text where it is searched raises
\* InvalidTranslationKeyError(key, searched locale, fallback) under
\* raise_on_empty and returns "" otherwise; there is no other outcome.
C5_MissingKeyOutcome ==
    C5_Case =>
        /\ call.result.consulted[1] = SearchedLocale
        /\ call.result.out =
              IF call.raise_on_empty
              THEN InvalidTranslationKeyError(call.key, SearchedLocale, fallback)
              ELSE Return(<<>>)

C5_Witness ==
    /\ C5_Case /\ IsDxGetText
    /\ call.raise_on_empty /\ call.should_fallback
    /\ call.locale \in DOMAIN languages /\ call.locale # fallback
    /\ call.result.consulted = <<call.locale, fallback>>
    /\ call.result.out =
          InvalidTranslationKeyError(call.key, call.locale, fallback)

\* C8 (as claimed): substitution is a single pass on every get_text path of
\* both I18n implementations: the result for a key that has text in the
\* selected locale is the result of that language's get_text.
C8_SinglePass ==
    ( /\ IsGetText
      /\ GivenLocale \in DOMAIN languages
      /\ ~HasNoText(languages[GivenLocale], call.key) )
        => call.result.out = LanguageResult(GivenLocale, call.raise_on_empty)

---------------------------------------------------------------------------
(* C6, C7: formatting (specification SpecFormat)                           *)

IsLanguageCall == call.op = "Language.get_text"

\* the table of the language the call is made on
CallTable == languages[call.code]

\* a template part that is a placeholder, and the name it holds
IsPlaceholder(p) == Len(p) >= 2 /\ p[1] = "{" /\ p[Len(p)] = "}"
PlaceholderName(p) == SubSeq(p, 2, Len(p) - 1)

\* a placeholder whose name is a plain word: no ".", not a number
IsSimplePlaceholder(p) ==
    /\ IsPlaceholder(p)
    /\ PlaceholderName(p) # <<>>
    /\ \A i \in 1..Len(PlaceholderName(p)) :
          PlaceholderName(p)[i] \notin Digits \cup {".", "{", "}"}

\* a template part that is literal text
IsLiteral(p) == \A i \in 1..Len(p) : p[i] \notin {"{", "}"}

\* the ways of writing a template as a sequence of parts
PartSeqs == UNION {[1..n -> Parts] : n \in 0..MaxParts}

\* what the claim says a placeholder {name} becomes in the call in progress
Substituted(name) ==
    IF name \in DOMAIN call.kwargs
    THEN LET v == call.kwargs[name]
         IN  IF v.t = "str" THEN v.s
             ELSE IF call.list_formatter # None
             THEN Concat([i \in 1..Len(v.l) |->
                            (IF i = 1 THEN <<>> ELSE <<",", " ">>) \o v.l[i]])
             ELSE FormatValue(v)
    ELSE IF call.use_translations /\ name \in DOMAIN CallTable
    THEN CallTable[name]
    ELSE <<"{">> \o name \o <<"}">>

\* C6: Language.get_text replaces each {name} placeholder of the template
\* from the keyword arguments and, with use_translations, from the table: a
\* keyword wins over a table entry, a list keyword goes through
\* list_formatter when one is given, and without use_translations a
\* placeholder that names only a table entry stays as it is.
C6_Substitution ==
    (IsLanguageCall /\ ~HasNoText(CallTable, call.key)) =>
        \A ps \in PartSeqs :
            ( /\ Concat(ps) = CallTable[call.key]
              /\ \A i \in 1..Len(ps) :
                    IsLiteral(ps[i]) \/ IsSimplePlaceholder(ps[i]) )
            => call.out =
                 Return(Concat([i \in 1..Len(ps) |->
                            IF IsLiteral(ps[i]) THEN ps[i]
                            ELSE Substituted(PlaceholderName(ps[i]))]))

C6_Witness ==
    /\ IsLanguageCall
    /\ call.key = <<"a">> /\ <<"a">> \in DOMAIN CallTable
    /\ CallTable[<<"a">>] = <<"x", "{", "b", "}">>
    /\ <<"b">> \in DOMAIN CallTable /\ CallTable[<<"b">>] = <<"x">>
    /\ call.use_translations
    /\ call.list_formatter # None
    /\ call.kwargs = (<<"b">> :> ListVal(<<(<<"p">>), (<<"q">>)>>))
    /\ call.out = Return(<<"x", "p", ",", " ", "q">>)

\* C7 (as claimed): with use_translations a placeholder {k} is replaced by
\* the table's value for k, for every key k of the table, delimiter-joined
\* keys included, and get_text raises nothing.
C7_AnyKeyAsPlaceholder ==
    \A k \in DOMAIN languages["en"] :
        ( /\ IsLanguageCall /\ call.code = "en"
          /\ call.use_translations
          /\ k \notin DOMAIN call.kwargs
          /\ call.key \in DOMAIN CallTable
          /\ CallTable[call.key] = <<"{">> \o k \o <<"}">> )
        => call.out = Return(CallTable[k])

---------------------------------------------------------------------------
(* C9, C10: flattening (specification SpecFlatten)                         *)

IsFlatten == call.op = "flatten_dict"
IsDxFlatten == IsFlatten /\ call.impl = "discord.ext.i18n"

\* delim in key, as Python's substring test: "" is in every string
Contains(key, delim) ==
    \E i \in 1..(Len(key) + 1) :
        /\ i + Len(delim) - 1 <= Len(key)
        /\ SubSeq(key, i, i + Len(delim) - 1) = delim

\* every map key of the document is non-empty and free of the delimiter
RECURSIVE KeysAreClean(_, _)
KeysAreClean(d, delim) ==
    \A i \in 1..Len(d.items) :
        /\ d.t = "dict" => (d.items[i].k # <<>> /\ ~Contains(d.items[i].k, delim))
        /\ KeysAreClean(d.items[i].d, delim)

\* the paths to the leaves of a document, as sequences of item positions
RECURSIVE LeafPaths(_)
LeafPaths(d) ==
    IF ~IsContainer(d) THEN {<<>>}
    ELSE UNION {{<<i>> \o p : p \in LeafPaths(d.items[i].d)} : i \in 1..Len(d.items)}

\* the node a path leads to
RECURSIVE NodeAt(_, _)
NodeAt(d, p) == IF p = <<>> THEN d ELSE NodeAt(d.items[Head(p)].d, Tail(p))

\* the names along a path: a map key, or the zero-based index in a sequence
RECURSIVE PathNames(_, _)
PathNames(d, p) ==
    IF p = <<>> THEN <<>>
    ELSE <<IF d.t = "list" THEN IntToStr(Head(p) - 1) ELSE d.items[Head(p)].k>>
         \o PathNames(d.items[Head(p)].d, Tail(p))

\* the names of a path joined with the delimiter
PathKey(d, p, delim) ==
    LET names == PathNames(d, p)
    IN  Concat([i \in 1..Len(names) |->
                    (IF i = 1 THEN <<>> ELSE delim) \o names[i]])

\* C9: for a document whose map keys are non-empty and free of the
\* delimiter, flatten_dict of discord.ext.i18n returns exactly one entry per
\* leaf, under the delimiter-joined path to it, sequence positions being
\* their zero-based decimal index.
C9_FlattenMapsLeaves ==
    (IsDxFlatten /\ KeysAreClean(data, delimiter)) =>
        /\ call.out.kind = "return"
        /\ DOMAIN call.out.flat = {PathKey(data, p, delimiter) : p \in LeafPaths(data)}
        /\ \A p \in LeafPaths(data) :
              call.out.flat[PathKey(data, p, delimiter)] = NodeAt(data, p)

C9_Witness ==
    /\ IsDxFlatten /\ KeysAreClean(data, delimiter)
    /\ \E p \in LeafPaths(data) :
          /\ PathKey(data, p, delimiter)
                = <<"a">> \o delimiter \o <<"0">> \o delimiter \o <<"0">>
          /\ call.out.flat[PathKey(data, p, delimiter)] = Leaf("u")

\* C10 (as claimed): in both flatten_dict implementations no value of the
\* returned map is itself a map or a sequence.
C10_FlatIsSingleLevel ==
    (IsFlatten /\ call.out.kind = "return") =>
        \A k \in DOMAIN call.out.flat : ~IsContainer(call.out.flat[k])

\* C18 (as claimed): flatten_dict of discord.ext.i18n loses no translation:
\* distinct leaf paths get distinct flat keys, so the returned map has as
\* many entries as the document has leaves and every leaf value is found
\* in it, also when map keys contain the delimiter or are empty.
C18_FlattenLosesNothing ==
    IsDxFlatten =>
        /\ call.out.kind = "return"
        /\ Cardinality(DOMAIN call.out.flat) = Cardinality(LeafPaths(data))
        /\ \A p \in LeafPaths(data) :
              \E k \in DOMAIN call.out.flat : call.out.flat[k] = NodeAt(data, p)

---------------------------------------------------------------------------
(* A Language built on a nested map (src/py18n/language.py lines 40-84)    *)

\* translations = None, the default of the dataclass field
NoTranslations == [t |-> "none", v |-> "", items |-> <<>>]

\* Language.__post_init__: a FlatterDict is built only when no translations
\* were given; a map that was given is kept as it is
PostInit(translations) ==
    IF translations.t = "none" THEN Dict(<<>>) ELSE translations

\* dict.get(key, ""): the value under a key of the map itself
DictGet(d, key) ==
    IF \E i \in 1..Len(d.items) : d.items[i].k = key
    THEN d.items[CHOOSE i \in 1..Len(d.items) : d.items[i].k = key].d
    ELSE Leaf("")

\* Language._get_translation_from_key on translations that are a document:
\* the result is a str, a dict or a list
GetTranslationFromKeyOfMap(translations, code, key, raise_on_empty) ==
    LET result == DictGet(translations, key)
    IN  IF raise_on_empty /\ result.t = "leaf" /\ result.v = ""
        THEN [kind |-> "TranslationKeyEmptyError", node |-> Leaf(""),
              key |-> key, locale |-> code]
        ELSE [kind |-> "return", node |-> result, key |-> <<>>, locale |-> ""]

\* the translations handed to Language(...): a map, or nothing
InitNested ==
    /\ languages = [l \in {"en"} |-> <<>>]
    /\ fallback = "en"
    /\ call = Idle
    /\ data \in {d \in Documents : d.t = "dict"} \cup {NoTranslations}
    /\ delimiter \in Delimiters
    /\ NoExtension

\* Language("English", "en", data)._get_translation_from_key(key, raise_on_empty)
DirectLookup(key, raise_on_empty) ==
    /\ call = Idle
    /\ call' = [op |-> "Language._get_translation_from_key",
                key |-> key, raise_on_empty |-> raise_on_empty,
                out |-> GetTranslationFromKeyOfMap(PostInit(data), "en", key,
                                                   raise_on_empty)]
    /\ UNCHANGED <<languages, fallback, data, delimiter, extension>>

\* the keys asked for: the delimiter-joined paths to the leaves, the keys of
\* the maps, and a key that names nothing
LookupKeys ==
    {PathKey(PostInit(data), p, delimiter) : p \in LeafPaths(PostInit(data))}
        \cup DocKeys \cup {<<"b">>}

NextNested ==
    \/ Done
    \/ \E key \in LookupKeys, raise_on_empty \in BOOLEAN :
          DirectLookup(key, raise_on_empty)

SpecNested == InitNested /\ [][NextNested]_vars

IsDirectLookup == call.op = "Language._get_translation_from_key"

\* every container of the document is a map
RECURSIVE OnlyMaps(_)
OnlyMaps(d) ==
    IsContainer(d) =>
        /\ d.t = "dict"
        /\ \A i \in 1..Len(d.items) : OnlyMaps(d.items[i].d)

\* C11 (as claimed): a Language constructed with a nested map supports
\* dotted nesting: _get_translation_from_key called with the
\* delimiter-joined path of an entry returns that entry's string, and does
\* not raise TranslationKeyEmptyError.
C11_DottedNesting ==
    ( /\ IsDirectLookup
      /\ OnlyMaps(PostInit(data))
      /\ KeysAreClean(PostInit(data), delimiter) ) =>
        \A p \in LeafPaths(PostInit(data)) :
            call.key = PathKey(PostInit(data), p, delimiter)
                => /\ call.out.kind = "return"
                   /\ call.out.node = NodeAt(PostInit(data), p)

---------------------------------------------------------------------------
(* discord.Locale, as far as the packages use it                           *)

\* Three members of the enumeration discord.Locale.  A member is not equal
\* to its value: Locale.spain_spanish # "es-ES", and a dict keyed by members
\* has no entry under a str.
american_english == "Locale.american_english"
spain_spanish == "Locale.spain_spanish"
french == "Locale.french"

\* member -> value
LocaleValue ==
    (american_english :> "en-US") @@ (spain_spanish :> "es-ES") @@ (french :> "fr")

\* member name -> member
LocaleNames ==
    ("american_english" :> american_english) @@ ("spain_spanish" :> spain_spanish)
    @@ ("french" :> french)

\* type(x) of a locale argument
PyType(x) ==
    IF x = None THEN "NoneType"
    ELSE IF x \in DOMAIN LocaleValue THEN "Locale" ELSE "str"

\* str(x): Locale.__str__ returns the value, str(None) is "None"
PyStr(x) == IF x \in DOMAIN LocaleValue THEN LocaleValue[x] ELSE x

\* the ASCII letters, upper case and lower case
UpperCase ==
    <<"A", "B", "C", "D", "E", "F", "G", "H", "I", "J", "K", "L", "M",
      "N", "O", "P", "Q", "R", "S", "T", "U", "V", "W", "X", "Y", "Z">>
LowerCase ==
    <<"a", "b", "c", "d", "e", "f", "g", "h", "i", "j", "k", "l", "m",
      "n", "o", "p", "q", "r", "s", "t", "u", "v", "w", "x", "y", "z">>

\* str.lower() of one character of an ASCII string
LowerChar(c) ==
    IF \E i \in 1..26 : UpperCase[i] = c
    THEN LowerCase[CHOOSE i \in 1..26 : UpperCase[i] = c]
    ELSE c

\* str.lower() of an ASCII string, given as its sequence of characters
Lower(x) == [i \in 1..Len(x) |-> LowerChar(x[i])]

\* str.split(sep) for a separator of one character
RECURSIVE Split(_, _)
Split(s, sep) ==
    LET i == IndexFrom(s, sep, 1)
    IN  IF i = 0 THEN <<s>>
        ELSE <<SubSeq(s, 1, i - 1)>> \o Split(SubSeq(s, i + 1, Len(s)), sep)

\* the locale code spelled by a sequence of characters (codes are kept as
\* strings, file names as sequences of characters)
RECURSIVE StrOf(_)
StrOf(s) == IF s = <<>> THEN "" ELSE Head(s) \o StrOf(Tail(s))

---------------------------------------------------------------------------
(* I18nExtension (src/discord/ext/i18n/extension.py, src/py18n/extension.py) *)

Packages == {"discord.ext.i18n", "py18n"}

\* the contexts (contextvars.Context) of two requests that run interleaved
Contexts == {"r1", "r2"}

\* a ContextVar without a value in a context
NoValue == "<no value>"

\* contextvars.ContextVar("_current_locale"): no value in any context
NewContextVar == [c \in Contexts |-> NoValue]

InvalidFallbackError(fb) ==
    [kind |-> "InvalidFallbackError", value |-> <<>>, key |-> <<>>,
     locale |-> "", fallback |-> fb]

NoDefaultI18nInstanceError == Raise("NoDefaultI18nInstanceError")

\* a variant of I18n.__init__ of discord.ext.i18n that takes any fallback
I18nInitUnchecked(langs, fb) ==
    [out |-> Return(<<>>), languages |-> langs, fallback |-> fb]

\* I18n.__init__ of discord.ext.i18n (i18n.py lines 43-53)
I18nInit(langs, fb) ==
    IF PyType(fb) \in {"str", "Locale"} /\ fb \in DOMAIN langs
    THEN [out |-> Return(<<>>), languages |-> langs, fallback |-> fb]
    ELSE [out |-> InvalidFallbackError(fb), languages |-> langs, fallback |-> fb]

\* I18nExtension.__init__ line 89 and I18n.__init__ of py18n (i18n.py lines
\* 36-47), for a fallback that is not an int
PyI18nInit(langs, fb) ==
    LET given == IF PyType(fb) = "str" THEN fb ELSE PyStr(fb)   \* extension.py 89
    IN  IF given \in DOMAIN langs
        THEN [out |-> Return(<<>>), languages |-> langs, fallback |-> given]
        ELSE [out |-> InvalidLocaleError(given), languages |-> langs,
              fallback |-> given]

\* the instance __init__ leaves behind
NewInstance(init) ==
    [languages |-> init.languages, fallback |-> init.fallback,
     current |-> NewContextVar]

\* a variant of the choice of the default instance that ignores default
DefaultAfterFirstOnly(current_default, default, new) ==
    IF current_default = 0 THEN new ELSE current_default

\* lines 84-85: if default or default_instance is None: default_instance = self
DefaultAfter(current_default, default, new) ==
    IF default \/ current_default = 0 THEN new ELSE current_default

\* a variant of set_current_locale on a plain attribute: every context sees it
SetInAllContexts(var, ctx, locale) == [c \in Contexts |-> locale]

\* ContextVar.set(locale), run in context ctx
ContextVarSet(var, ctx, locale) == [var EXCEPT ![ctx] = locale]

\* I18nExtension.get_current_locale, run in context ctx:
\* self._current_locale.get(self._fallback)
GetCurrentLocale(instance, ctx) ==
    IF instance.current[ctx] = NoValue
    THEN instance.fallback ELSE instance.current[ctx]

\* contextual_get_text: the locale handed to get_text (dx lines 158-161,
\* py18n lines 146-149)
ContextualLocale(pkg, instance, ctx, locale) ==
    IF locale = None THEN GetCurrentLocale(instance, ctx)
    ELSE IF pkg = "py18n" THEN PyStr(locale) ELSE locale

\* get_text of the package's I18n on an instance
InstanceGetText(pkg, instance, key, locale, should_fallback, raise_on_empty) ==
    IF pkg = "py18n"
    THEN PyI18nGetText(instance.languages, instance.fallback, key, locale,
                       None, TRUE, should_fallback, raise_on_empty, <<>>)
    ELSE I18nGetText(instance.languages, instance.fallback, key, locale,
                     None, TRUE, should_fallback, raise_on_empty, <<>>)

\* I18nExtension.contextual_get_text, run in context ctx
ContextualGetTextOutcome(pkg, insts, dflt, ctx, key, locale, should_fallback, raise_on_empty) ==
    IF dflt = 0
    THEN Outcome(NoDefaultI18nInstanceError, <<>>, FALSE)
    ELSE InstanceGetText(pkg, insts[dflt], key,
                         ContextualLocale(pkg, insts[dflt], ctx, locale),
                         should_fallback, raise_on_empty)

\* default_instance after a successful unload: discord.ext.i18n sets it to
\* None (line 301), py18n leaves it (lines 232-243)
DefaultAfterUnload(pkg, dflt) == IF pkg = "py18n" THEN dflt ELSE 0

\* I18nExtension.parser of discord.ext.i18n, lines 191-196 and 203-215: the
\* code of a file from the stem of its name; Locale(value) raises
\* ValueError, Locale[name] raises KeyError, which parser does not catch
ParserCode(name) ==
    LET parts     == Split(name, "_")
        lang_name == parts[1]
        lang_code == IF Len(parts) > 1 THEN parts[Len(parts)] ELSE <<>>
        given     == IF lang_code # <<>> THEN lang_code ELSE lang_name
    IN  IF \E m \in DOMAIN LocaleValue : LocaleValue[m] = StrOf(given)
        THEN [kind |-> "return",
              code |-> CHOOSE m \in DOMAIN LocaleValue :
                          LocaleValue[m] = StrOf(given)]
        ELSE IF StrOf(Lower(given)) \in DOMAIN LocaleNames
        THEN [kind |-> "return", code |-> LocaleNames[StrOf(Lower(given))]]
        ELSE [kind |-> "KeyError", code |-> StrOf(Lower(given))]

\* I18nExtension.parser lines 198-201: the flat table of a parsed file
ParserInfo(doc, delim) ==
    LET flat == DxFlattenDict(doc, delim).flat
    IN  [k \in DOMAIN flat |-> flat[k].v]

\* I18nExtension.name_code_method of py18n (lines 161-176):
\* a, *_, b = stem.split("_") raises ValueError for a stem without "_"
NameCodeMethod(name) ==
    LET parts == Split(name, "_")
    IN  IF Len(parts) < 2
        THEN [kind |-> "ValueError", code |-> ""]
        ELSE [kind |-> "return", code |-> StrOf(parts[Len(parts)])]

\* I18nExtension.load of py18n (line 219): flatten_dict(item) of a parsed
\* file whose values are str
LoadInfo(doc) ==
    LET flat == PyFlattenDict(doc, <<".">>).flat
    IN  [k \in DOMAIN flat |-> flat[k].v]

\* {language.code: language for language in languages} (I18n.__init__) over
\* the files in the order glob yields them: the last file of a code stays
RECURSIVE LanguagesOf(_, _)
LanguagesOf(codes, infos) ==
    IF codes = <<>> THEN <<>>
    ELSE Update(LanguagesOf(SubSeq(codes, 1, Len(codes) - 1),
                            SubSeq(infos, 1, Len(infos) - 1)),
                codes[Len(codes)].code :> infos[Len(infos)])

\* TranslationContextLocation members of the model, and their names
Locations == {"other", "choice_name"}
LocationName(location) ==
    IF location = "other" THEN <<"o", "t", "h", "e", "r">>
    ELSE <<"c", "h", "o", "i", "c", "e", "_", "n", "a", "m", "e">>

\* I18nTranslator.translate line 114: f"{context.location.name}.{string.message}"
TranslateKey(location, message) == LocationName(location) \o <<".">> \o message

\* I18nTranslator.translate for a locale_str without extras, at a location
\* that is a choice name (lines 106-112) or falls to the last case (113-114)
TranslateOutcome(insts, dflt, ctx, message, locale, location) ==
    IF location = "choice_name"
    THEN Outcome(Return(message), <<>>, FALSE)
    ELSE
    LET key  == TranslateKey(location, message)
        item == ContextualGetTextOutcome("discord.ext.i18n", insts, dflt, ctx,
                                         key, PyStr(locale), TRUE, FALSE)
    IN  IF item.out.kind = "return" /\ item.out.value = <<>>
        THEN Outcome(Return(message), item.consulted, item.warned)
        ELSE item

---------------------------------------------------------------------------
(* Inputs of the extension                                                 *)

\* the largest number of I18nExtension instances constructed
MaxInstances == 2

EnglishText == <<"h", "e", "l", "l", "o">>
SpanishText == <<"h", "o", "l", "a">>

\* the messages of the strings to translate: one with translations, one
\* without
Messages == {<<"m">>, <<"n">>}

\* the key looked up through contextual_get_text
ExtKey == TranslateKey("other", <<"m">>)

\* languages handed to I18nExtension(...): codes that are str
StrLanguages ==
    ("en-US" :> (ExtKey :> EnglishText)) @@ ("es-ES" :> (ExtKey :> SpanishText))

\* the fallback arguments of I18nExtension(...)
ConstructFallbacks == {"en-US", "fr", None, american_english}

\* a file load_files / load finds: the stem of its name and the parsed
\* document (the texts hold no {{...}}, so PARSER.sub leaves them as they are)
TranslationFile(name, text) ==
    [name |-> name,
     doc  |-> Dict(<<Item(LocationName("other"),
                          Dict(<<Item(<<"m">>, Leaf(text))>>))>>)]

\* en-US.json, Spanish_es-ES.json, xx.json, English_en-US.json, French.json
EnglishFile == TranslationFile(<<"e", "n", "-", "U", "S">>, EnglishText)
SpanishFile ==
    TranslationFile(<<"S", "p", "a", "n", "i", "s", "h", "_",
                      "e", "s", "-", "E", "S">>, SpanishText)
OtherFile == TranslationFile(<<"x", "x">>, EnglishText)
EnglishHiFile ==
    TranslationFile(<<"E", "n", "g", "l", "i", "s", "h", "_",
                      "e", "n", "-", "U", "S">>, <<"h", "i">>)
FrenchFile == TranslationFile(<<"F", "r", "e", "n", "c", "h">>, SpanishText)

\* the directories loaded, each as the files in the order glob yields them
\* (the order of the directory, which the caller does not choose)
FileLists ==
    { <<EnglishFile, SpanishFile>>, <<SpanishFile>>, <<EnglishFile, OtherFile>>,
      <<FrenchFile>>,
      <<EnglishFile, EnglishHiFile, SpanishFile>>,
      <<EnglishHiFile, EnglishFile, SpanishFile>> }

\* the fallback arguments of load_files and load
LoadFallbacks == {None, "", "es-ES"}

\* the locales set as current, and the locale arguments of contextual_get_text
SetLocales == {"es-ES", spain_spanish}
ContextualLocales == {None, "es-ES", spain_spanish, "fr"}

\* raise_on_empty as contextual_get_text is called: its default, which is
\* also what translate passes
RaiseOnEmptyArgs == {FALSE}

\* the locales translate is asked for
TranslateLocales == {american_english, spain_spanish}

---------------------------------------------------------------------------
(* The extension: the I18nExtension class of one package, its instances    *)
(* and the calls made on them from two contexts                            *)

InitExtension ==
    /\ languages = [l \in {"en"} |-> <<>>]
    /\ fallback = "en"
    /\ call = Idle
    /\ data = NoDocument
    /\ delimiter = <<".">>
    /\ package \in Packages
    /\ instances = <<>>
    /\ default_instance = 0

\* what __init__ does once I18n.__init__ is through (dx lines 80-85, py18n
\* lines 90-95); nothing when it raised
Constructed(init, default) ==
    IF init.out.kind = "return"
    THEN /\ instances' = Append(instances, NewInstance(init))
         /\ default_instance' =
               DefaultAfter(default_instance, default, Len(instances) + 1)
    ELSE UNCHANGED <<instances, default_instance>>

\* I18nExtension(languages, fallback, default=default)
Construct(langs, fb, default) ==
    /\ call = Idle
    /\ Len(instances) < MaxInstances
    /\ LET init == IF package = "py18n" THEN PyI18nInit(langs, fb)
                   ELSE I18nInit(langs, fb)
       IN  /\ Constructed(init, default)
           /\ call' = [op |-> "I18nExtension", fallback |-> fb,
                       default |-> default, out |-> init.out]
    /\ UNCHANGED <<languages, fallback, data, delimiter, package>>

\* the names of the files of a directory, in glob order
FileNames(files) == [i \in 1..Len(files) |-> files[i].name]

\* I18nExtension.load_files of discord.ext.i18n (lines 217-262) on a
\* directory holding the files
LoadFiles(files, fb) ==
    /\ call = Idle
    /\ package = "discord.ext.i18n"
    /\ Len(instances) < MaxInstances
    /\ LET codes == [i \in 1..Len(files) |-> ParserCode(files[i].name)]
           infos == [i \in 1..Len(files) |-> ParserInfo(files[i].doc, <<".">>)]
       IN  IF \E i \in 1..Len(files) : codes[i].kind # "return"
           THEN /\ call' = [op |-> "load_files", fallback |-> fb,
                            names |-> FileNames(files),
                            default |-> TRUE, out |-> Raise("KeyError")]
                /\ UNCHANGED <<instances, default_instance>>
           ELSE
           LET init == I18nInit(LanguagesOf(codes, infos),
                                IF Falsy(fb) THEN american_english ELSE fb)
           IN  /\ Constructed(init, TRUE)
               /\ call' = [op |-> "load_files", fallback |-> fb,
                           names |-> FileNames(files),
                           default |-> TRUE, out |-> init.out]
    /\ UNCHANGED <<languages, fallback, data, delimiter, package>>

\* I18nExtension.load of py18n (lines 178-230) on a directory holding the
\* files
Load(files, fb) ==
    /\ call = Idle
    /\ package = "py18n"
    /\ Len(instances) < MaxInstances
    /\ LET codes == [i \in 1..Len(files) |-> NameCodeMethod(files[i].name)]
           infos == [i \in 1..Len(files) |-> LoadInfo(files[i].doc)]
       IN  IF \E i \in 1..Len(files) : codes[i].kind # "return"
           THEN /\ call' = [op |-> "load", fallback |-> fb,
                            names |-> FileNames(files),
                            default |-> TRUE, out |-> Raise("ValueError")]
                /\ UNCHANGED <<instances, default_instance>>
           ELSE
           LET init == PyI18nInit(LanguagesOf(codes, infos), fb)
           IN  /\ Constructed(init, TRUE)
               /\ call' = [op |-> "load", fallback |-> fb,
                           names |-> FileNames(files),
                           default |-> TRUE, out |-> init.out]
    /\ UNCHANGED <<languages, fallback, data, delimiter, package>>

\* instance.set_current_locale(locale), run in context ctx
SetCurrentLocale(i, ctx, locale) ==
    /\ call = Idle
    /\ i \in 1..Len(instances)
    /\ instances' = [instances EXCEPT
                        ![i].current = ContextVarSet(@, ctx, locale)]
    /\ call' = [op |-> "set_current_locale", instance |-> i, ctx |-> ctx,
                locale |-> locale]
    /\ UNCHANGED <<languages, fallback, data, delimiter, package, default_instance>>

\* instance.get_current_locale(), run in context ctx
GetCurrentLocaleCall(i, ctx) ==
    /\ call = Idle
    /\ i \in 1..Len(instances)
    /\ call' = [op |-> "get_current_locale", instance |-> i, ctx |-> ctx,
                out |-> GetCurrentLocale(instances[i], ctx)]
    /\ UNCHANGED <<languages, fallback, data, delimiter, extension>>

\* I18nExtension.contextual_get_text, run in context ctx
ContextualGetText(ctx, key, locale, should_fallback, raise_on_empty) ==
    /\ call = Idle
    /\ call' = [op |-> "contextual_get_text", ctx |-> ctx, key |-> key,
                locale |-> locale, should_fallback |-> should_fallback,
                raise_on_empty |-> raise_on_empty,
                result |-> ContextualGetTextOutcome(package, instances,
                              default_instance, ctx, key, locale,
                              should_fallback, raise_on_empty)]
    /\ UNCHANGED <<languages, fallback, data, delimiter, extension>>

\* I18nExtension.unload (dx lines 286-303, py18n lines 232-243)
Unload ==
    /\ call = Idle
    /\ IF default_instance = 0
       THEN /\ call' = [op |-> "unload", out |-> NoDefaultI18nInstanceError]
            /\ UNCHANGED <<instances, default_instance>>
       ELSE /\ call' = [op |-> "unload", out |-> Return(<<>>)]
            /\ instances' = [instances EXCEPT
                                ![default_instance].current = NewContextVar]
            /\ default_instance' = DefaultAfterUnload(package, default_instance)
    /\ UNCHANGED <<languages, fallback, data, delimiter, package>>

\* I18nTranslator.translate(string, locale, context), run in context ctx
Translate(ctx, message, locale, location) ==
    /\ call = Idle
    /\ package = "discord.ext.i18n"
    /\ call' = [op |-> "translate", message |-> message, locale |-> locale,
                location |-> location,
                result |-> TranslateOutcome(instances, default_instance, ctx,
                                            message, locale, location)]
    /\ UNCHANGED <<languages, fallback, data, delimiter, extension>>

NextExtension ==
    \/ Done
    \/ \E fb \in ConstructFallbacks, default \in BOOLEAN :
          Construct(StrLanguages, fb, default)
    \/ \E files \in FileLists, fb \in LoadFallbacks : LoadFiles(files, fb)
    \/ \E files \in FileLists, fb \in LoadFallbacks : Load(files, fb)
    \/ \E i \in 1..MaxInstances, ctx \in Contexts, locale \in SetLocales :
          SetCurrentLocale(i, ctx, locale)
    \/ \E i \in 1..MaxInstances, ctx \in Contexts : GetCurrentLocaleCall(i, ctx)
    \/ \E ctx \in Contexts, locale \in ContextualLocales,
          should_fallback \in BOOLEAN, raise_on_empty \in RaiseOnEmptyArgs :
          ContextualGetText(ctx, ExtKey, locale, should_fallback, raise_on_empty)
    \/ Unload
    \/ \E ctx \in Contexts, message \in Messages,
          locale \in TranslateLocales, location \in Locations :
          Translate(ctx, message, locale, location)

SpecExtension == InitExtension /\ [][NextExtension]_vars

---------------------------------------------------------------------------
(* C12 - C17: the extension (specification SpecExtension)                  *)

IsContextual == call.op = "contextual_get_text"

\* the default instance, when there is one
DefaultInstance == instances[default_instance]

\* the locale the claim names for the call in progress: the one passed,
\* else the one last set in the calling context, else the fallback
ClaimedLocale ==
    IF call.locale # None THEN call.locale
    ELSE IF DefaultInstance.current[call.ctx] # NoValue
    THEN DefaultInstance.current[call.ctx]
    ELSE DefaultInstance.fallback

\* C12: contextual_get_text gives what default_instance.get_text gives for
\* the locale passed, else for the locale last set in the calling context,
\* else for the fallback, with the same arguments.
C12_AsClaimed ==
    (IsContextual /\ default_instance # 0) =>
        call.result = InstanceGetText(package, DefaultInstance, call.key,
                                      ClaimedLocale, call.should_fallback,
                                      call.raise_on_empty)

\* a step that is a call of set_current_locale
IsSetStep == call = Idle /\ call'.op = "set_current_locale"

\* a step that constructs an instance: I18nExtension(...), load_files or
\* load returned
IsConstructStep ==
    /\ call = Idle
    /\ call'.op \in {"I18nExtension", "load_files", "load"}
    /\ call'.out.kind = "return"

\* what contextual_get_text without a locale gives in context ctx
ContextualDefault(insts, dflt, ctx) ==
    ContextualGetTextOutcome(package, insts, dflt, ctx, ExtKey, None, TRUE, FALSE)

\* C13: the current locale is bound per context: set_current_locale in one
\* context is observed there, changes neither get_current_locale nor
\* contextual_get_text without a locale in any other context, and every
\* context of a new instance observes the fallback.
C13_PerRequestLocale ==
    [][ /\ IsSetStep =>
            /\ GetCurrentLocale(instances'[call'.instance], call'.ctx) = call'.locale
            /\ \A i \in 1..Len(instances), c \in Contexts :
                  (i # call'.instance \/ c # call'.ctx) =>
                      GetCurrentLocale(instances'[i], c)
                          = GetCurrentLocale(instances[i], c)
            /\ \A c \in Contexts \ {call'.ctx} :
                  ContextualDefault(instances', default_instance', c)
                      = ContextualDefault(instances, default_instance, c)
        /\ IsConstructStep =>
            \A c \in Contexts :
                GetCurrentLocale(instances'[Len(instances')], c)
                    = instances'[Len(instances')].fallback
        /\ call'.op = "get_current_locale" =>
            call'.out = GetCurrentLocale(instances[call'.instance], call'.ctx)
      ]_vars

C13_Witness ==
    /\ call.op = "get_current_locale" /\ call.ctx = "r2"
    /\ instances[call.instance].current["r1"] = "es-ES"
    /\ instances[call.instance].current["r2"] = NoValue
    /\ call.out = instances[call.instance].fallback
    /\ call.out # "es-ES"

\* C14 (as claimed): with languages loaded by load_files, translate returns
\* the entry of the locale it is asked for whenever that locale is loaded
\* and has text for the computed key, not the fallback's entry.
C14_TranslateAskedLocale ==
    ( /\ call.op = "translate" /\ call.location = "other"
      /\ default_instance # 0
      /\ DOMAIN DefaultInstance.languages \subseteq DOMAIN LocaleValue
      /\ call.locale \in DOMAIN DefaultInstance.languages
      /\ ~HasNoText(DefaultInstance.languages[call.locale],
                    TranslateKey(call.location, call.message)) )
        => call.result.out =
              Return(DefaultInstance.languages[call.locale]
                        [TranslateKey(call.location, call.message)])

\* C15: in discord.ext.i18n a fallback that is not a str or Locale naming
\* one of the languages raises InvalidFallbackError and leaves no instance
\* (and no default instance) behind; the fallback of every instance has an
\* entry in its language table, and no step changes the table or the
\* fallback of an instance.
C15_FallbackIsLoaded ==
    [][ package = "discord.ext.i18n" =>
          /\ \A i \in 1..Len(instances') :
                instances'[i].fallback \in DOMAIN instances'[i].languages
          /\ \A i \in 1..Len(instances) :
                /\ Len(instances') >= Len(instances)
                /\ instances'[i].languages = instances[i].languages
                /\ instances'[i].fallback = instances[i].fallback
          /\ ( /\ call = Idle /\ call'.op = "I18nExtension"
               /\ ~( /\ PyType(call'.fallback) \in {"str", "Locale"}
                     /\ call'.fallback \in DOMAIN StrLanguages ) )
                => /\ call'.out = InvalidFallbackError(call'.fallback)
                   /\ instances' = instances
                   /\ default_instance' = default_instance
      ]_vars

C15_Witness ==
    /\ package = "discord.ext.i18n"
    /\ call.op = "I18nExtension" /\ call.fallback = american_english
    /\ call.out = InvalidFallbackError(american_english)
    /\ Len(instances) = 1 /\ default_instance = 1
    /\ instances[1].fallback = "en-US"

\* contextual_get_text raises NoDefaultI18nInstanceError in the state
NoDefault(insts, dflt) ==
    \A c \in Contexts, locale \in ContextualLocales :
        ContextualGetTextOutcome(package, insts, dflt, c, ExtKey, locale,
                                 TRUE, FALSE).out = NoDefaultI18nInstanceError

\* C16 (as claimed): in both packages contextual_get_text raises
\* NoDefaultI18nInstanceError exactly when no default instance is
\* registered: before any construction, and from an unload() until the next
\* construction; unload() itself raises it when nothing is registered, so a
\* second unload() in a row raises.
C16_NoDefaultWhenUnregistered ==
    [][ /\ instances = <<>> => NoDefault(instances, default_instance)
        /\ IsConstructStep => ~NoDefault(instances', default_instance')
        /\ (call = Idle /\ call'.op = "unload" /\ call'.out.kind = "return")
              => NoDefault(instances', default_instance')
        /\ (call = Idle /\ call'.op = "unload")
              => (call'.out = NoDefaultI18nInstanceError
                    <=> NoDefault(instances, default_instance))
        /\ (call = Idle /\ call'.op = "contextual_get_text")
              => (call'.result.out = NoDefaultI18nInstanceError
                    <=> NoDefault(instances, default_instance))
        /\ ~( \/ IsConstructStep
              \/ (call = Idle /\ call'.op = "unload" /\ call'.out.kind = "return") )
              => (NoDefault(instances', default_instance')
                    <=> NoDefault(instances, default_instance))
      ]_vars

\* C17: a construction with default=True makes the new instance the
\* default; one with default=False leaves an existing default instance in
\* place and makes the very first instance the default; nothing but a
\* construction or an unload changes the default instance.
C17_DefaultInstance ==
    [][ /\ IsConstructStep =>
            /\ call'.default => default_instance' = Len(instances')
            /\ (~call'.default /\ default_instance # 0)
                  => default_instance' = default_instance
            /\ (~call'.default /\ instances = <<>>) => default_instance' = 1
        /\ ~(IsConstructStep \/ (call = Idle /\ call'.op = "unload"))
              => default_instance' = default_instance
      ]_vars

C17_Witness ==
    /\ call.op = "I18nExtension" /\ ~call.default
    /\ call.out.kind = "return"
    /\ Len(instances) = 2 /\ default_instance = 1

===========================================================================
